---- MODULE Spec2Model ----
(***************************************************************************)
(* NNStack (deep_rfs/extraction/NNStack.py): an ordered list of stages     *)
(* {'model', 'support'}, a cached support_dim, and the folder of           *)
(* encoder_<i>.h5 / support_<i>.npy files that save writes and load reads. *)
(* Feature extraction follows Autoencoder.all_features / s_features.       *)
(***************************************************************************)
EXTENDS Integers, Sequences, FiniteSets, TLC

VARIABLES stack, support_dim, fs, result

vars == <<stack, support_dim, fs, result>>

\* The datasets of deep_ifs/utils/datasets.py: the transitions, the SFADF'
\* dataset built from them and the latest transform's output.
VARIABLES sars, sfadf, dout

dvars == <<sars, sfadf, dout>>

\* A collect_sars call: the call itself, its episodes and what it returns.
VARIABLES round, tasks, dataset, envs

cvars == <<round, tasks, dataset, envs>>

allvars == <<vars, dvars, cvars>>

\* Largest number of stages add() is driven to.
MaxStages == 2

\* Length of the flattened encoding of one sample, for the two extractors
\* (named by their encoder weights) that add() is called with.
OutputDim(w) == IF w = "A" THEN 1 ELSE 2

\* The (extractor, support) arguments add() is called with: three whose mask
\* has the extractor's output length and one whose mask is longer.
AddInputs ==
    { <<"A", <<TRUE>>>>, <<"B", <<FALSE, TRUE>>>>, <<"B", <<TRUE, TRUE>>>>,
      <<"A", <<TRUE, TRUE>>>> }

\* The inputs x of s_features: x.shape[0] = 1 (one sample) or 2 (a batch).
Batches == {<<1>>, <<1, 2>>}

\* The folder strings passed to save/load: "d" and "d/".
Folders == {[dir |-> "d", slash |-> FALSE], [dir |-> "d", slash |-> TRUE]}

Kinds == {"encoder", "support"}

\* A trainable extractor object as built by the caller of add().
Trainable(w) == [weights |-> w, trainable |-> TRUE]

\* GenericEncoder(path): a reload-only model around the encoder saved at path.
GenericEncoder(content) == [weights |-> content, trainable |-> FALSE]

\* model.save_encoder(filename): the file holds the encoder network.
save_encoder(model) == model.weights

\* d['support'].sum(): the number of True entries of a boolean mask.
SupportSum(m) == Cardinality({i \in DOMAIN m : m[i]})

\* np.array(support) in add: the mask as an array, entries unchanged.
np_array(support) == [i \in 1..Len(support) |-> support[i]]

----------------------------------------------------------------------------
\* Feature extraction

\* The encoder's output for one sample: OutputDim columns.
Encode(w, sample) == [c \in 1..OutputDim(w) |-> <<w, c, sample>>]

\* Autoencoder.all_features: flat for one sample, one row per sample otherwise.
all_features(model, x) ==
    IF Len(x) = 1
    THEN Encode(model.weights, x[1])
    ELSE [r \in 1..Len(x) |-> Encode(model.weights, x[r])]

\* v[support]: the entries of v at the True positions of the mask, in order.
RECURSIVE BoolIndex(_, _)
BoolIndex(v, m) ==
    IF m = <<>> THEN <<>>
    ELSE (IF Head(m) THEN <<Head(v)>> ELSE <<>>) \o BoolIndex(Tail(v), Tail(m))

\* Autoencoder.s_features(x, support): a mask whose length is not the
\* encoding's fails the boolean indexing.
model_features(model, x, support) ==
    LET prediction == all_features(model, x)
    IN  IF Len(support) # OutputDim(model.weights)
        THEN [err |-> "IndexError", out |-> <<>>]
        ELSE IF Len(x) = 1
        THEN [err |-> "none", out |-> BoolIndex(prediction, support)]
        ELSE [err |-> "none",
              out |-> [r \in 1..Len(x) |-> BoolIndex(prediction[r], support)]]

\* Variant of EmptyOutput: np.empty((n, 1)) in place of np.empty((n, 0)).
OneColumnOutput(x) == IF Len(x) = 1 THEN <<0>> ELSE [r \in 1..Len(x) |-> <<0>>]

\* The initial output of NNStack.s_features: [] or np.empty((n, 0)).
EmptyOutput(x) == IF Len(x) = 1 THEN <<>> ELSE [r \in 1..Len(x) |-> <<>>]

\* Variant of AppendStage: the operands of the concatenation swapped.
PrependStage(output, prediction, x) ==
    IF Len(x) = 1 THEN prediction \o output
    ELSE [r \in 1..Len(x) |-> prediction[r] \o output[r]]

\* np.concatenate([output, prediction]) / np.column_stack((output, prediction)).
AppendStage(output, prediction, x) ==
    IF Len(x) = 1 THEN output \o prediction
    ELSE [r \in 1..Len(x) |-> output[r] \o prediction[r]]

\* The loop of NNStack.s_features over enumerate(self.stack).
RECURSIVE s_features_loop(_, _, _, _)
s_features_loop(stk, x, idx, output) ==
    IF idx > Len(stk) THEN [err |-> "none", out |-> output]
    ELSE LET p == model_features(stk[idx].model, x, stk[idx].support)
         IN  IF p.err # "none" THEN p
             ELSE s_features_loop(stk, x, idx + 1, AppendStage(output, p.out, x))

\* NNStack.s_features(x) of a stage list.
s_features_of(stk, x) == s_features_loop(stk, x, 1, EmptyOutput(x))

s_features(x) == s_features_of(stack, x)

\* Number of feature columns of an output for input x.
NumColumns(out, x) == IF Len(x) = 1 THEN Len(out) ELSE Len(out[1])

\* NNStack.get_support_dim() with index None, of a stage list.
RECURSIVE get_support_dim_of(_)
get_support_dim_of(stk) ==
    IF stk = <<>> THEN 0
    ELSE SupportSum(Head(stk).support) + get_support_dim_of(Tail(stk))

get_support_dim == get_support_dim_of(stack)

\* NNStack.get_support_dim(index), the stages counted from 1.
get_support_dim_at(index) == SupportSum(stack[index].support)

\* NNStack.model_s_features(x, index), the stages counted from 1.
model_s_features(x, index) ==
    model_features(stack[index].model, x, stack[index].support)

----------------------------------------------------------------------------
\* The folder on disk

\* fs[prefix][kind] is the set of <<index, content>> files named
\* prefix + kind + '_<index>' + extension.
NoFiles == [encoder |-> {}, support |-> {}]

\* folder += '/' unless folder.endswith('/') (save only).
WithSlash(folder) == [folder EXCEPT !.slash = TRUE]

\* glob.glob(folder + 'encoder_*.h5') / glob.glob(folder + 'support_*.npy'):
\* the indices of the files found.
glob(folder, kind) == {p[1] : p \in fs[folder][kind]}

\* The content of the file of that kind and index under the prefix.
ReadFile(folder, kind, i) == (CHOOSE p \in fs[folder][kind] : p[1] = i)[2]

\* Writing a file replaces the one of the same name.
WriteFile(files, i, content) == {p \in files : p[1] # i} \cup {<<i, content>>}

----------------------------------------------------------------------------
\* Operations

\* ---------------------------------------------------------------------
\* The Atari environment (deep_ifs/envs/atari.py)

\* The frames of a state.
Frames == 4

\* The observations of the emulator (preprocessed images).
Obs == {1, 2}

\* self.final_reward = -1.0 / (1.0 - self.gamma), gamma = 0.99
final_reward == -100

\* Atari.reset: the state is the first observation, four times.
atari_reset(obs) == [k \in 1..Frames |-> obs]

\* Atari._get_next_state: the last three frames and the new observation.
get_next_state(current, obs) == Tail(current) \o <<obs>>

\* Atari.step on an environment whose state is current, the emulator
\* answering obs, reward, done.
atari_step(current, obs, reward, done) ==
    [state  |-> get_next_state(current, obs),
     reward |-> IF done THEN final_reward ELSE reward,
     done   |-> done]

Init ==
    /\ stack = <<>>
    /\ support_dim = 0
    /\ fs = [f \in Folders |-> NoFiles]
    /\ result = [op |-> "init", err |-> "none"]
    /\ sars = <<>>
    /\ sfadf = <<>>
    /\ dout = [op |-> "idle"]
    /\ round = [pc |-> "idle"]
    /\ tasks = <<>>
    /\ dataset = [returned |-> FALSE, rows |-> <<>>]
    /\ envs = (0 :> atari_reset(1))

\* Variant of add: self.stack.insert(0, d) in place of append.
add_front(model, support) ==
    /\ Len(stack) < MaxStages
    /\ LET d == [model |-> model, support |-> np_array(support)]
       IN  /\ stack' = <<d>> \o stack
           /\ support_dim' = support_dim + SupportSum(d.support)
    /\ result' = [op |-> "add", err |-> "none", model |-> model, support |-> support]
    /\ UNCHANGED <<fs, dvars, cvars>>

\* result is the outcome of the latest call: its name, its arguments, the
\* error it raised ("none" when it returned) and, for reset and load, the
\* number of stages held when it was called.
add(model, support) ==
    /\ Len(stack) < MaxStages
    /\ LET d == [model |-> model, support |-> np_array(support)]
       IN  /\ stack' = Append(stack, d)
           /\ support_dim' = support_dim + SupportSum(d.support)
    /\ result' = [op |-> "add", err |-> "none", model |-> model, support |-> support]
    /\ UNCHANGED <<fs, dvars, cvars>>

\* Variant of reset: support_dim is not cleared.
reset_keeps_dim ==
    /\ stack' = <<>>
    /\ support_dim' = support_dim
    /\ result' = [op |-> "reset", err |-> "none", held |-> Len(stack)]
    /\ UNCHANGED <<fs, dvars, cvars>>

reset ==
    /\ stack' = <<>>
    /\ support_dim' = 0
    /\ result' = [op |-> "reset", err |-> "none", held |-> Len(stack)]
    /\ UNCHANGED <<fs, dvars, cvars>>

\* The loop of save over enumerate(self.stack), on the files of one kind.
RECURSIVE save_loop(_, _, _, _)
save_loop(stk, kind, idx, files) ==
    IF idx > Len(stk) THEN files
    ELSE save_loop(stk, kind, idx + 1,
                   WriteFile(files, idx - 1,
                             IF kind = "encoder" THEN save_encoder(stk[idx].model)
                             ELSE stk[idx].support))

\* The prefix save writes under.
SavePrefix(folder) == IF ~folder.slash THEN WithSlash(folder) ELSE folder

save(folder) ==
    /\ LET f == SavePrefix(folder)
       IN  fs' = [fs EXCEPT ![f] =
                    [k \in Kinds |-> save_loop(stack, k, 1, fs[f][k])]]
    /\ result' = [op |-> "save", err |-> "none", folder |-> folder]
    /\ UNCHANGED <<stack, support_dim, dvars, cvars>>

\* The loop of load over range(nb_models): GenericEncoder(...) and np.load(...)
\* raise on a missing file, leaving the stages appended so far (a non-empty
\* partial stack needs equal counts with a gap after index 0: three stages).
RECURSIVE load_loop(_, _, _, _)
load_loop(folder, i, nb_models, stk) ==
    IF i = nb_models THEN [err |-> "none", stack |-> stk]
    ELSE IF i \notin glob(folder, "encoder") \/ i \notin glob(folder, "support")
    THEN [err |-> "IOError", stack |-> stk]
    ELSE load_loop(folder, i + 1, nb_models,
                   Append(stk, [model |-> GenericEncoder(ReadFile(folder, "encoder", i)),
                                support |-> ReadFile(folder, "support", i)]))

\* Variant of load_assert: the counts are not compared.
load_assert_nonzero(nb_models, nb_supports) == nb_models # 0

\* assert nb_models == nb_supports and nb_models != 0
load_assert(nb_models, nb_supports) == nb_models = nb_supports /\ nb_models # 0

\* load once the counts are read: the assertion, then reset and the loop
\* appending to start, then the refresh of support_dim.
load_from(folder, start) ==
    LET nb_models == Cardinality(glob(folder, "encoder"))
        nb_supports == Cardinality(glob(folder, "support"))
    IN  IF ~load_assert(nb_models, nb_supports)
        THEN /\ result' = [op |-> "load", err |-> "AssertionError",
                           folder |-> folder, held |-> Len(stack)]
             /\ UNCHANGED <<stack, support_dim, fs, dvars, cvars>>
        ELSE LET r == load_loop(folder, 0, nb_models, start)
             IN  /\ stack' = r.stack
                 /\ support_dim' = IF r.err = "none" THEN get_support_dim_of(r.stack)
                                   ELSE 0
                 /\ result' = [op |-> "load", err |-> r.err,
                               folder |-> folder, held |-> Len(stack)]
                 /\ UNCHANGED <<fs, dvars, cvars>>

\* Variant of load: self.reset() is not called.
load_no_reset(folder) == load_from(folder, stack)

load(folder) == load_from(folder, <<>>)

\* A file of the folder is lost between two calls (the folder is an input of load).
RemoveFile(folder, kind, i) ==
    /\ i \in glob(folder, kind)
    /\ fs' = [fs EXCEPT ![folder][kind] = {p \in @ : p[1] # i}]
    /\ result' = [op |-> "RemoveFile", err |-> "none"]
    /\ UNCHANGED <<stack, support_dim, dvars, cvars>>

Next ==
    \/ \E a \in AddInputs : add(Trainable(a[1]), a[2])
    \/ reset
    \/ \E f \in Folders : save(f)
    \/ \E f \in Folders : load(f)
    \/ \E f \in Folders, k \in Kinds, i \in 0..(MaxStages - 1) : RemoveFile(f, k, i)

----------------------------------------------------------------------------
\* Datasets (deep_ifs/utils/datasets.py)

\* Largest number of rows of a transition dataset.
MaxRows == 2

\* The transition rows [S, A, R, S'] that datasets are made of.
Transitions ==
    { [S |-> 1, A |-> 0, R |-> 0, SS |-> 2],
      [S |-> 2, A |-> 1, R |-> 1, SS |-> 1],
      [S |-> 2, A |-> 0, R |-> 1, SS |-> 2] }

\* pd.DataFrame(np.array(rows), columns=header): the rows in list order under
\* the default row labels 0..n-1.
DataFrame(rows) == [i \in 1..Len(rows) |-> [label |-> i - 1, row |-> rows[i]]]

\* The numeric value of one encoder output.
Val(t) == (IF t[1] = "A" THEN 1 ELSE 2) * t[3] + t[2]

\* Element-wise difference of two arrays of the same length.
VecSub(a, b) == [k \in 1..Len(a) |-> a[k] - b[k]]

\* nn.flat_encode(S): the extractor's whole encoding of one state, flat.
flat_encode(nn, s) == all_features(nn, <<s>>)

\* nn.s_features(S, support) of one state, as numbers.
nn_s_features(nn, s, support) ==
    LET f == model_features(nn, <<s>>, support).out
    IN  [k \in 1..Len(f) |-> Val(f[k])]

\* model.predict(F): the residual model's estimate of a delta of n entries.
RECURSIVE SumVal(_)
SumVal(f) == IF f = <<>> THEN 0 ELSE Val(Head(f)) + SumVal(Tail(f))

predict(f, n) == [k \in 1..n |-> (SumVal(f) + k) % 3]

build_farf(nn, sarsf) ==
    DataFrame([i \in 1..Len(sarsf) |->
        [F  |-> flat_encode(nn, sarsf[i].row.S),
         A  |-> sarsf[i].row.A,
         R  |-> sarsf[i].row.R,
         FF |-> flat_encode(nn, sarsf[i].row.SS)]])

build_sfadf(nn_stack, nn, support, sarsf) ==
    DataFrame([i \in 1..Len(sarsf) |->
        [S  |-> sarsf[i].row.S,
         F  |-> s_features_of(nn_stack, <<sarsf[i].row.S>>).out,
         A  |-> sarsf[i].row.A,
         D  |-> VecSub(nn_s_features(nn, sarsf[i].row.S, support),
                       nn_s_features(nn, sarsf[i].row.SS, support)),
         FF |-> s_features_of(nn_stack, <<sarsf[i].row.SS>>).out]])

\* Variant of build_sares: the residual is clipped at 0.
build_sares_clipped(sfadff) ==
    DataFrame([i \in 1..Len(sfadff) |->
        [S   |-> sfadff[i].row.S,
         A   |-> sfadff[i].row.A,
         RES |-> LET r == VecSub(sfadff[i].row.D,
                                 predict(sfadff[i].row.F, Len(sfadff[i].row.D)))
                 IN  [k \in 1..Len(r) |-> IF r[k] < 0 THEN 0 ELSE r[k]]]])

build_sares(sfadff) ==
    DataFrame([i \in 1..Len(sfadff) |->
        [S   |-> sfadff[i].row.S,
         A   |-> sfadff[i].row.A,
         RES |-> VecSub(sfadff[i].row.D,
                        predict(sfadff[i].row.F, Len(sfadff[i].row.D)))]])

\* fadf['D'] = sfadf.D: the column is aligned on the row labels; a label that
\* sfadf lacks gives a missing value (NaN).
AlignD(label, sfadff) ==
    IF \E j \in 1..Len(sfadff) : sfadff[j].label = label
    THEN [missing |-> FALSE,
          value |-> sfadff[CHOOSE j \in 1..Len(sfadff) : sfadff[j].label = label].row.D]
    ELSE [missing |-> TRUE, value |-> <<>>]

\* The F, A, FF rows of build_fadf, the D column assigned afterwards.
build_fadf(nn_stack, nn, sarsf, sfadff) ==
    LET fadf == DataFrame([i \in 1..Len(sarsf) |->
                   [F  |-> s_features_of(nn_stack, <<sarsf[i].row.S>>).out
                             \o flat_encode(nn, sarsf[i].row.S),
                    A  |-> sarsf[i].row.A,
                    FF |-> s_features_of(nn_stack, <<sarsf[i].row.SS>>).out
                             \o flat_encode(nn, sarsf[i].row.SS)]])
    IN  [i \in 1..Len(fadf) |->
            [label |-> fadf[i].label,
             row |-> [F  |-> fadf[i].row.F,
                      A  |-> fadf[i].row.A,
                      D  |-> AlignD(fadf[i].label, sfadff),
                      FF |-> fadf[i].row.FF]]]

build_global_farf(nn_stack, sarsf) ==
    DataFrame([i \in 1..Len(sarsf) |->
        [F  |-> s_features_of(nn_stack, <<sarsf[i].row.S>>).out,
         A  |-> sarsf[i].row.A,
         R  |-> sarsf[i].row.R,
         FF |-> s_features_of(nn_stack, <<sarsf[i].row.SS>>).out]])

\* The (extractor, support) pairs used as the candidate nn of an iteration.
Candidates == {a \in AddInputs : Len(a[2]) = OutputDim(a[1])}

\* The stacks the transforms are run with.
DataStacks ==
    { <<>>,
      <<[model |-> Trainable("A"), support |-> <<TRUE>>]>>,
      <<[model |-> Trainable("B"), support |-> <<FALSE, TRUE>>],
        [model |-> Trainable("A"), support |-> <<TRUE>>]>> }

\* The permutations of 1..n.
Perms(n) == {p \in [1..n -> 1..n] : \A i, j \in 1..n : p[i] = p[j] => i = j}

\* df.iloc[p]: the rows in the order p, each keeping its label.
Reorder(df, p) == [i \in 1..Len(df) |-> df[p[i]]]

\* df.drop(label): the rows without the one at position i, labels kept.
DropRow(df, i) == [j \in 1..(Len(df) - 1) |-> IF j < i THEN df[j] ELSE df[j + 1]]

InitData ==
    /\ stack \in DataStacks
    /\ support_dim = get_support_dim_of(stack)
    /\ fs = [f \in Folders |-> NoFiles]
    /\ result = [op |-> "init", err |-> "none"]
    /\ sars \in {DataFrame(rows) : rows \in UNION {[1..n -> Transitions] : n \in 1..MaxRows}}
    /\ sfadf = <<>>
    /\ dout = [op |-> "collect_sars"]
    /\ round = [pc |-> "idle"]
    /\ tasks = <<>>
    /\ dataset = [returned |-> FALSE, rows |-> <<>>]
    /\ envs = (0 :> atari_reset(1))

BuildSfadf(nn, support) ==
    /\ sfadf' = build_sfadf(stack, nn, support, sars)
    /\ dout' = [op |-> "build_sfadf", nn |-> nn, support |-> support]
    /\ UNCHANGED <<sars, vars, cvars>>

BuildSares ==
    /\ sfadf # <<>>
    /\ dout' = [op |-> "build_sares", rows |-> build_sares(sfadf)]
    /\ UNCHANGED <<sars, sfadf, vars, cvars>>

BuildFadf(nn) ==
    /\ sfadf # <<>>
    /\ dout' = [op |-> "build_fadf", nn |-> nn,
                rows |-> build_fadf(stack, nn, sars, sfadf)]
    /\ UNCHANGED <<sars, sfadf, vars, cvars>>

BuildFarf(nn) ==
    /\ dout' = [op |-> "build_farf", nn |-> nn, rows |-> build_farf(nn, sars)]
    /\ UNCHANGED <<sars, sfadf, vars, cvars>>

BuildGlobalFarf ==
    /\ dout' = [op |-> "build_global_farf", rows |-> build_global_farf(stack, sars)]
    /\ UNCHANGED <<sars, sfadf, vars, cvars>>

\* The caller reorders the rows of sfadf between two transforms.
ReorderSfadf(p) ==
    /\ sfadf # <<>>
    /\ sfadf' = Reorder(sfadf, p)
    /\ sfadf' # sfadf
    /\ dout' = [op |-> "reorder"]
    /\ UNCHANGED <<sars, vars, cvars>>

\* The caller filters a row out of sfadf between two transforms.
DropSfadfRow(i) ==
    /\ Len(sfadf) > 1
    /\ sfadf' = DropRow(sfadf, i)
    /\ dout' = [op |-> "drop"]
    /\ UNCHANGED <<sars, vars, cvars>>

NextData ==
    \/ \E a \in Candidates : BuildSfadf(Trainable(a[1]), a[2])
    \/ BuildSares
    \/ \E a \in Candidates : BuildFadf(Trainable(a[1]))
    \/ \E a \in Candidates : BuildFarf(Trainable(a[1]))
    \/ BuildGlobalFarf
    \/ \E p \in Perms(Len(sfadf)) : ReorderSfadf(p)
    \/ \E i \in 1..Len(sfadf) : DropSfadfRow(i)

\* The transforms run on a collected dataset with a fixed stack.
SpecData == InitData /\ [][NextData]_allvars

\* ---------------------------------------------------------------------
\* Collection of transitions (deep_ifs/utils/datasets.py, episode and
\* collect_sars)

MaxEpisodes == 2
MaxJobs == 2
MaxSteps == 2

\* policy.draw_action(state, done) of a fixed policy.
draw_action(state) == state[Frames] % 2

\* The emulator's reward for an observation.
EmulatorReward(obs) == obs - 1

\* Variant of ep_append: the tuple is put in front.
ep_prepend(ep_output, row) == <<row>> \o ep_output

\* ep_output.append([state, action, reward, next_state])
ep_append(ep_output, row) == Append(ep_output, row)

\* flat2list: the episodes' lists joined in list order.
RECURSIVE flat2list(_)
flat2list(l) == IF l = <<>> THEN <<>> ELSE Head(l) \o flat2list(Tail(l))

\* Variant of EnvFor: every rollout is handed the caller's object.
SharedEnv(n_jobs, i) == 0

\* The environment object rollout i calls: with one job the rollouts run in
\* the caller's process on the caller's object (0); with more, the arguments
\* of a task are pickled to a worker process, which gives rollout i a copy
\* of its own.
EnvFor(n_jobs, i) == IF n_jobs = 1 THEN 0 ELSE i

\* Variant of Completed: a rollout that raised counts as finished.
Settled(ts) == \A i \in 1..Len(ts) : ts[i].pc \in {"done", "failed"}

\* Parallel(...)(...) returns once every rollout has returned.
Completed(ts) == \A i \in 1..Len(ts) : ts[i].pc = "done"

Running(ts) == {i \in 1..Len(ts) : ts[i].pc \in {"reset", "loop"}}

\* collect_sars is called: the rollouts are submitted in order.
collect_sars(episodes, n_jobs) ==
    /\ round.pc = "idle"
    /\ round' = [pc |-> "running", n_jobs |-> n_jobs, episodes |-> episodes]
    /\ tasks' = [i \in 1..episodes |->
                    [pc |-> "queued", env |-> 0, state |-> <<>>,
                     out |-> <<>>, runs |-> 0]]
    /\ UNCHANGED <<dataset, envs, vars, dvars>>

\* A free worker takes the next submitted rollout.
dispatch(i) ==
    /\ round.pc = "running"
    /\ i \in 1..Len(tasks)
    /\ tasks[i].pc = "queued"
    /\ \A j \in 1..(i - 1) : tasks[j].pc # "queued"
    /\ Cardinality(Running(tasks)) < round.n_jobs
    /\ LET e == EnvFor(round.n_jobs, i)
       IN  /\ tasks' = [tasks EXCEPT ![i] =
                           [@ EXCEPT !.pc = "reset", !.env = e, !.runs = @ + 1]]
           /\ envs' = (e :> envs[0]) @@ envs
    /\ UNCHANGED <<round, dataset, vars, dvars>>

\* episode: state = env.reset()
episode_reset(i, obs) ==
    /\ round.pc = "running"
    /\ i \in 1..Len(tasks)
    /\ tasks[i].pc = "reset"
    /\ envs' = [envs EXCEPT ![tasks[i].env] = atari_reset(obs)]
    /\ tasks' = [tasks EXCEPT ![i] =
                    [@ EXCEPT !.pc = "loop", !.state = atari_reset(obs)]]
    /\ UNCHANGED <<round, dataset, vars, dvars>>

\* episode: one turn of the loop.
episode_step(i, obs, done) ==
    /\ round.pc = "running"
    /\ i \in 1..Len(tasks)
    /\ tasks[i].pc = "loop"
    /\ Len(tasks[i].out) + 1 >= MaxSteps => done
    /\ LET state  == tasks[i].state
           action == draw_action(state)
           r      == atari_step(envs[tasks[i].env], obs, EmulatorReward(obs), done)
           row    == [S |-> state, A |-> action, R |-> r.reward, SS |-> r.state]
       IN  /\ envs' = [envs EXCEPT ![tasks[i].env] = r.state]
           /\ tasks' = [tasks EXCEPT ![i] =
                           [@ EXCEPT !.pc = IF r.done THEN "done" ELSE "loop",
                                     !.state = r.state,
                                     !.out = ep_append(@, row)]]
    /\ UNCHANGED <<round, dataset, vars, dvars>>

\* episode: env.reset, policy.draw_action or env.step raises.
episode_raise(i) ==
    /\ round.pc = "running"
    /\ i \in Running(tasks)
    /\ tasks' = [tasks EXCEPT ![i] = [@ EXCEPT !.pc = "failed"]]
    /\ UNCHANGED <<round, dataset, envs, vars, dvars>>

\* collect_sars returns the flattened dataset.
collect_return ==
    /\ round.pc = "running"
    /\ Completed(tasks)
    /\ round' = [round EXCEPT !.pc = "returned"]
    /\ dataset' = [returned |-> TRUE,
                   rows |-> DataFrame(flat2list(
                       [i \in 1..Len(tasks) |-> tasks[i].out]))]
    /\ UNCHANGED <<tasks, envs, vars, dvars>>

\* Parallel re-raises a rollout's exception in the caller: the round is over.
collect_raise ==
    /\ round.pc = "running"
    /\ \E i \in 1..Len(tasks) : tasks[i].pc = "failed"
    /\ round' = [round EXCEPT !.pc = "failed"]
    /\ UNCHANGED <<tasks, dataset, envs, vars, dvars>>

NextCollect ==
    \/ \E episodes \in 1..MaxEpisodes, n_jobs \in 1..MaxJobs :
          collect_sars(episodes, n_jobs)
    \/ \E i \in 1..MaxEpisodes : dispatch(i)
    \/ \E i \in 1..MaxEpisodes, obs \in Obs : episode_reset(i, obs)
    \/ \E i \in 1..MaxEpisodes, obs \in Obs, done \in BOOLEAN :
          episode_step(i, obs, done)
    \/ \E i \in 1..MaxEpisodes : episode_raise(i)
    \/ collect_return
    \/ collect_raise

\* One collection round.
SpecCollect == Init /\ [][NextCollect]_allvars

\* ---------------------------------------------------------------------
\* A process that starts beside a folder written by an earlier run

\* Number of stages of the stack the earlier run saved.
PersistedStages == 3

\* The stack the earlier run saved.
PersistedStack ==
    [i \in 1..PersistedStages |->
        IF i % 2 = 1 THEN [model |-> Trainable("A"), support |-> np_array(<<TRUE>>)]
        ELSE [model |-> Trainable("B"), support |-> np_array(<<FALSE, TRUE>>)]]

PersistedFolder == [dir |-> "d", slash |-> TRUE]

InitPersisted ==
    /\ stack = <<>>
    /\ support_dim = 0
    /\ fs = [f \in Folders |->
               IF f = PersistedFolder
               THEN [k \in Kinds |-> save_loop(PersistedStack, k, 1, {})]
               ELSE NoFiles]
    /\ result = [op |-> "init", err |-> "none"]
    /\ sars = <<>>
    /\ sfadf = <<>>
    /\ dout = [op |-> "idle"]
    /\ round = [pc |-> "idle"]
    /\ tasks = <<>>
    /\ dataset = [returned |-> FALSE, rows |-> <<>>]
    /\ envs = (0 :> atari_reset(1))

NextPersisted ==
    \/ \E a \in AddInputs : add(Trainable(a[1]), a[2])
    \/ reset
    \/ \E f \in Folders : save(f)
    \/ \E f \in Folders : load(f)
    \/ \E f \in Folders, k \in Kinds, i \in 0..(PersistedStages - 1) :
          RemoveFile(f, k, i)

\* The stack's life beside a folder that already holds a saved stack.
SpecPersisted == InitPersisted /\ [][NextPersisted]_allvars

\* The stack's life on its own: no dataset is built.
Spec == Init /\ [][Next]_allvars

----------------------------------------------------------------------------
\* Properties

\* A stage whose mask has the length of its extractor's encoding.
Matched(d) == Len(d.support) = OutputDim(d.model.weights)

\* The files of the directory a folder string names.
DirFiles(folder, kind) == glob(WithSlash(folder), kind)

\* Same number of stages, and stage by stage the same mask and an extractor
\* with the same encoder.
SameStages(s2, s1) ==
    /\ Len(s2) = Len(s1)
    /\ \A i \in 1..Len(s1) :
          /\ s2[i].support = s1[i].support
          /\ s2[i].model.weights = s1[i].model.weights

\* C1: add(e, m) with len(m) equal to e's output dimensionality returns,
\* appends exactly the stage (e, m) at the end of the stack, and raises
\* get_support_dim() by the number of True entries of m.
C1_AddAppendsStage ==
    [][(result'.op = "add" /\ Len(result'.support) = OutputDim(result'.model.weights))
        => /\ result'.err = "none"
           /\ stack' = Append(stack, [model |-> result'.model,
                                      support |-> result'.support])
           /\ get_support_dim' = get_support_dim + SupportSum(result'.support)]_vars

C1_Witness ==
    /\ result.op = "add"
    /\ Len(result.support) = OutputDim(result.model.weights)
    /\ Len(stack) = 2
    /\ stack[1] # stack[2]
    /\ SupportSum(result.support) = 2

\* C2: add(e, m) with len(m) different from e's output dimensionality fails
\* with ShapeMismatch, and no stack holds a stage whose mask length differs
\* from its extractor's output dimensionality.
C2_MismatchedAddFails ==
    /\ (result.op = "add" /\ Len(result.support) # OutputDim(result.model.weights))
          => result.err = "ShapeMismatch"
    /\ \A i \in 1..Len(stack) : Matched(stack[i])

\* C3: a load(dir) that directly follows save(dir) of a non-empty stack
\* returns and yields the saved stages: same count, same masks, equivalent
\* extractors, hence the same s_features on every batch.
C3_SaveLoadRoundTrip ==
    [][(result.op = "save" /\ result'.op = "load" /\ result'.folder = result.folder
        /\ stack # <<>>)
        => /\ result'.err = "none"
           /\ SameStages(stack', stack)
           /\ \A x \in Batches : s_features_of(stack', x) = s_features_of(stack, x)]_vars

\* C4: load(dir) raises whenever the directory's counts of encoder files
\* and of support files differ or one of them is zero.
C4_LoadRejectsBadCounts ==
    (/\ result.op = "load"
     /\ \/ Cardinality(DirFiles(result.folder, "encoder"))
             # Cardinality(DirFiles(result.folder, "support"))
        \/ DirFiles(result.folder, "encoder") = {}
        \/ DirFiles(result.folder, "support") = {})
    => result.err = "AssertionError"

C4_Witness ==
    /\ result.op = "load"
    /\ result.folder.slash
    /\ Cardinality(DirFiles(result.folder, "encoder")) = 1
    /\ Cardinality(DirFiles(result.folder, "support")) = 2
    /\ result.err = "AssertionError"

\* C5: a load that fails on unequal counts of encoder and support files
\* leaves the stack with zero stages and support dimension 0, whatever it
\* held before.
C5_FailedLoadLeavesReset ==
    (/\ result.op = "load"
     /\ result.err = "AssertionError"
     /\ Cardinality(glob(result.folder, "encoder"))
          # Cardinality(glob(result.folder, "support")))
    => (stack = <<>> /\ support_dim = 0)

\* C6: after a load that returned, the stack holds exactly the stages of the
\* folder's files, indices 0..n-1 in order, as reload-only models, and none
\* of the stages held before.
C6_LoadReplacesStack ==
    (result.op = "load" /\ result.err = "none")
    => LET f == result.folder
           n == Cardinality(glob(f, "encoder"))
       IN  /\ glob(f, "encoder") = 0..(n - 1)
           /\ glob(f, "support") = 0..(n - 1)
           /\ Len(stack) = n
           /\ \A i \in 1..Len(stack) :
                 /\ (i - 1) \in glob(f, "encoder") \cap glob(f, "support")
                 /\ stack[i] = [model |-> [weights |-> ReadFile(f, "encoder", i - 1),
                                           trainable |-> FALSE],
                                support |-> ReadFile(f, "support", i - 1)]

C6_Witness ==
    /\ result.op = "load"
    /\ result.err = "none"
    /\ result.held = 2
    /\ Len(stack) = 1

\* C7: after save(dir) the directory holds exactly one encoder file and one
\* support file per stage, indices 0..len-1, and no other stage file.
C7_SaveLeavesExactlyTheStages ==
    result.op = "save"
    => /\ DirFiles(result.folder, "encoder") = 0..(Len(stack) - 1)
       /\ DirFiles(result.folder, "support") = 0..(Len(stack) - 1)

\* First output column of stage i.
Offset(i) == get_support_dim_of(SubSeq(stack, 1, i - 1))

\* Rank of column c among the selected columns of mask m.
Rank(m, c) == Cardinality({k \in 1..c : m[k]})

\* The row of an output that belongs to sample r of x.
Row(out, x, r) == IF Len(x) = 1 THEN out ELSE out[r]

\* C8: s_features(x) lays the stages' selected columns out in insertion
\* order: the k-th selected column of stage i sits at the number of columns
\* selected by the stages before i, plus k.
C8_ConcatenationInStageOrder ==
    (\A i \in 1..Len(stack) : Matched(stack[i]))
    => \A x \in Batches :
         LET f == s_features(x)
         IN  /\ f.err = "none"
             /\ \A r \in 1..Len(x) :
                   /\ Len(Row(f.out, x, r)) = get_support_dim
                   /\ \A i \in 1..Len(stack) :
                         \A c \in 1..Len(stack[i].support) :
                           stack[i].support[c]
                           => Row(f.out, x, r)[Offset(i) + Rank(stack[i].support, c)]
                                = <<stack[i].model.weights, c, x[r]>>

C8_Witness ==
    /\ Len(stack) = 2
    /\ stack[1].model.weights = "A" /\ stack[1].support = <<TRUE>>
    /\ stack[2].model.weights = "B" /\ stack[2].support = <<FALSE, TRUE>>
    /\ s_features(<<1>>).out = << <<"A", 1, 1>>, <<"B", 2, 1>> >>

\* C9: a stack with zero stages, fresh or after reset, has
\* get_support_dim() = 0 and s_features(x) has no feature column.
C9_EmptyStack ==
    stack = <<>>
    => /\ get_support_dim = 0
       /\ \A x \in Batches :
             LET f == s_features(x)
             IN  /\ f.err = "none"
                 /\ NumColumns(f.out, x) = 0
                 /\ Len(x) = 1 => f.out = <<>>
                 /\ Len(x) > 1 => Len(f.out) = Len(x)

C9_Witness ==
    /\ stack = <<>>
    /\ result.op = "reset"
    /\ result.held > 0
    /\ fs[[dir |-> "d", slash |-> TRUE]].encoder # {}

\* C10: after reset() the stack is as freshly constructed: no stage and
\* support_dim 0.
C10_ResetIsFresh ==
    result.op = "reset" => (stack = <<>> /\ support_dim = 0)

C10_Witness ==
    /\ result.op = "reset"
    /\ result.held = 2

\* The rows of a dataset without their labels.
Rows(df) == [i \in 1..Len(df) |-> df[i].row]

CandidateModels == {Trainable(a[1]) : a \in Candidates}

\* The transforms that iterate over the transitions commute with any
\* reordering of them.
SarsTransformsCommute(p) ==
    LET ps == Reorder(sars, p)
    IN  /\ \A nn \in CandidateModels :
              /\ Len(build_farf(nn, sars)) = Len(sars)
              /\ Rows(build_farf(nn, ps)) = Reorder(Rows(build_farf(nn, sars)), p)
        /\ \A a \in Candidates :
              /\ Len(build_sfadf(stack, Trainable(a[1]), a[2], sars)) = Len(sars)
              /\ Rows(build_sfadf(stack, Trainable(a[1]), a[2], ps))
                   = Reorder(Rows(build_sfadf(stack, Trainable(a[1]), a[2], sars)), p)
        /\ Len(build_global_farf(stack, sars)) = Len(sars)
        /\ Rows(build_global_farf(stack, ps))
             = Reorder(Rows(build_global_farf(stack, sars)), p)

\* build_sares commutes with any reordering of sfadf.
SaresCommutes ==
    /\ Len(build_sares(sfadf)) = Len(sfadf)
    /\ \A q \in Perms(Len(sfadf)) :
          Rows(build_sares(Reorder(sfadf, q))) = Reorder(Rows(build_sares(sfadf)), q)

\* C11: every transform returns as many rows as its input and commutes with a
\* reordering of the input rows (for build_fadf: of the transitions and of
\* sfadf, reordered alike), so output row i comes from input row i alone.
C11_TransformsCommuteWithReordering ==
    /\ SaresCommutes
    /\ \A p \in Perms(Len(sars)) :
          /\ SarsTransformsCommute(p)
          /\ Len(sfadf) = Len(sars)
             => \A nn \in CandidateModels :
                  /\ Len(build_fadf(stack, nn, sars, sfadf)) = Len(sars)
                  /\ Rows(build_fadf(stack, nn, Reorder(sars, p), Reorder(sfadf, p)))
                       = Reorder(Rows(build_fadf(stack, nn, sars, sfadf)), p)

\* C12: build_sares copies S and A of every sfadf row and sets RES to D minus
\* the model's prediction on F, entry by entry, unclipped.
C12_ResidualIsLiteralDifference ==
    dout.op = "build_sares"
    => /\ Len(dout.rows) = Len(sfadf)
       /\ \A i \in 1..Len(sfadf) :
             LET o == dout.rows[i].row
                 d == sfadf[i].row
             IN  /\ o.S = d.S
                 /\ o.A = d.A
                 /\ Len(o.RES) = Len(d.D)
                 /\ \A k \in 1..Len(d.D) :
                       o.RES[k] = d.D[k] - predict(d.F, Len(d.D))[k]

C12_Witness ==
    /\ dout.op = "build_sares"
    /\ Len(sfadf) = 2
    /\ \E k \in 1..Len(dout.rows[1].row.RES) : dout.rows[1].row.RES[k] < 0
    /\ stack # <<>>

\* The F and FF of row i of build_fadf: the stack's features followed by the
\* candidate's encoding.
FadfFeatures(i) ==
    /\ dout.rows[i].row.F
         = s_features(<<sars[i].row.S>>).out \o flat_encode(dout.nn, sars[i].row.S)
    /\ dout.rows[i].row.FF
         = s_features(<<sars[i].row.SS>>).out \o flat_encode(dout.nn, sars[i].row.SS)

\* C13: build_fadf sets D of row i to D of sfadf's row at position i, whatever
\* the labels and the row count of sfadf, and F / FF to the stack's features
\* followed by the candidate's encoding.
C13_DCopiedByPosition ==
    dout.op = "build_fadf"
    => /\ Len(dout.rows) = Len(sars)
       /\ \A i \in 1..Len(sars) :
             /\ FadfFeatures(i)
             /\ i \in 1..Len(sfadf)
             /\ ~dout.rows[i].row.D.missing
             /\ dout.rows[i].row.D.value = sfadf[i].row.D

\* The number of rows of the first n rollouts.
RECURSIVE EpisodeRows(_, _)
EpisodeRows(ts, n) == IF n = 0 THEN 0 ELSE Len(ts[n].out) + EpisodeRows(ts, n - 1)

\* C14: the dataset collect_sars returns has as many rows as the episodes
\* have steps; each episode's rows are contiguous, in step order (the first
\* row starts at the reset state, the S of every later row is the SS of the
\* row before) and the first episode's rows come first.
C14_EpisodesContiguousInOrder ==
    dataset.returned
    => /\ Len(dataset.rows) = EpisodeRows(tasks, Len(tasks))
       /\ \A i \in 1..Len(tasks) :
             LET at == EpisodeRows(tasks, i - 1)
                 n  == Len(tasks[i].out)
             IN  /\ n >= 1
                 /\ \A k \in 1..n : dataset.rows[at + k].row = tasks[i].out[k]
                 /\ dataset.rows[at + 1].row.S
                      = atari_reset(dataset.rows[at + 1].row.S[1])
                 /\ \A k \in 1..(n - 1) :
                       dataset.rows[at + k + 1].row.S = dataset.rows[at + k].row.SS

C14_Witness ==
    /\ dataset.returned
    /\ round.n_jobs = 2
    /\ Len(tasks) = 2
    /\ Len(tasks[1].out) = 2
    /\ Len(tasks[2].out) = 1
    /\ tasks[1].out[1] # tasks[2].out[1]
    /\ tasks[1].out[2].SS # tasks[1].out[1].S

\* C15: a round in which a rollout raised returns no dataset, whatever the
\* other rollouts completed; it can only fail, and no rollout runs twice.
C15_FailedRoundReturnsNothing ==
    /\ (\E i \in 1..Len(tasks) : tasks[i].pc = "failed")
         => /\ round.pc \in {"running", "failed"}
            /\ ~dataset.returned
            /\ dataset.rows = <<>>
    /\ round.pc = "failed" => \E i \in 1..Len(tasks) : tasks[i].pc = "failed"
    /\ \A i \in 1..Len(tasks) : tasks[i].runs <= 1

C15_Witness ==
    /\ round.pc = "failed"
    /\ \E i, j \in 1..Len(tasks) :
          /\ tasks[i].pc = "done"
          /\ tasks[j].pc = "failed"
          /\ tasks[j].out # <<>>

C17_CachedDimMatchesStack == support_dim = get_support_dim

\* An output for input x with n feature columns: a flat vector of length n
\* for one sample, a table of Len(x) rows of n columns for a batch.
Shaped(out, x, n) ==
    IF Len(x) = 1 THEN Len(out) = n
    ELSE Len(out) = Len(x) /\ \A r \in 1..Len(x) : Len(out[r]) = n

\* C18: for every stack and input, s_features returns get_support_dim()
\* columns and model_s_features(x, i) returns get_support_dim(i) columns, as
\* a flat vector for one sample and a table with one row per sample for a
\* batch.
C18_ColumnsMatchSupportDim ==
    \A x \in Batches :
       /\ s_features(x).err = "none"
       /\ Shaped(s_features(x).out, x, get_support_dim)
       /\ \A i \in 1..Len(stack) :
             /\ model_s_features(x, i).err = "none"
             /\ Shaped(model_s_features(x, i).out, x, get_support_dim_at(i))

====
